---- MODULE Spec2Model ----
(***************************************************************************)
(* Model of kyc.py: the kyc value encoder, the code-object encoder, the    *)
(* container assembly in compile_kyc and the daemonise service loop.       *)
(*                                                                         *)
(* Representation.  A Python str is the sequence of its code points, a     *)
(* bytes object the sequence of its bytes (0..255).  A Python int is       *)
(* arbitrary precision: [neg, mag] with mag the base-256 digits of the     *)
(* magnitude, least significant first, no leading zero digit (zero is the  *)
(* empty sequence).  A value is [kind, val]; the result of a call is       *)
(* either the returned bytes or the exception it raised.                   *)
(***************************************************************************)
EXTENDS Integers, Sequences, FiniteSets, TLC

\* ------------------------------------------------------------- bounds
\* Largest number of base-256 digits of an int drawn as encoder input.
MaxDigits == 5
\* Largest number of request reads of one service session.
MaxRequests == 2

\* ------------------------------------------------------ results, helpers
Ok(b) == [ok |-> TRUE, bytes |-> b, exc |-> "", msg |-> <<>>]

Raise(t, m) == [ok |-> FALSE, bytes |-> <<>>, exc |-> t, msg |-> m]

RECURSIVE Concat(_)
\* b"".join(items)
Concat(ss) ==
    IF ss = <<>> THEN <<>>
    ELSE IF Len(ss) = 1 THEN ss[1]
    ELSE LET h == Len(ss) \div 2
         IN  Concat(SubSeq(ss, 1, h)) \o Concat(SubSeq(ss, h + 1, Len(ss)))

\* The exception of the first call (in evaluation order) that raised.
FirstFailure(rs) ==
    rs[CHOOSE k \in 1..Len(rs) : ~rs[k].ok /\ \A j \in 1..(k - 1) : rs[j].ok]

\* A list of calls evaluated in order and joined: the first exception
\* propagates, otherwise the results are concatenated.
JoinResults(rs) ==
    IF \E k \in 1..Len(rs) : ~rs[k].ok
    THEN FirstFailure(rs)
    ELSE Ok(Concat([k \in 1..Len(rs) |-> rs[k].bytes]))

RECURSIVE Digits(_)
\* The Python int holding the natural number n, as its base-256 digits.
Digits(n) == IF n = 0 THEN <<>> ELSE <<n % 256>> \o Digits(n \div 256)

PyInt(n) == [neg |-> n < 0, mag |-> Digits(IF n < 0 THEN 0 - n ELSE n)]

\* len(x)
PyLen(s) == PyInt(Len(s))

Pad(mag, length) == [k \in 1..length |-> IF k <= Len(mag) THEN mag[k] ELSE 0]

RECURSIVE AddOne(_)
AddOne(bs) ==
    IF bs = <<>> THEN <<>>
    ELSE IF Head(bs) = 255 THEN <<0>> \o AddOne(Tail(bs))
    ELSE <<Head(bs) + 1>> \o Tail(bs)

\* Two's complement of a little-endian byte string: invert and add one.
TwosComplement(bs) == AddOne([k \in 1..Len(bs) |-> 255 - bs[k]])

OverflowMsg == <<105,110,116,32,116,111,111,32,98,105,103,32,116,111,32,99,111,110,118,101,114,116>>  \* "int too big to convert"

NegativeMsg == <<99,97,110,39,116,32,99,111,110,118,101,114,116,32,110,101,103,97,116,105,118,101,32,105,110,116,32,116,111,32,117,110,115,105,103,110,101,100>>  \* "can't convert negative int to unsigned"

\* int.to_bytes(length, byteorder="little", signed=signed): OverflowError
\* when the int is not representable in the given number of bytes.
ToBytes(i, length, signed) ==
    LET n == Len(i.mag)
        lowZero == \A k \in 1..(length - 1) : i.mag[k] = 0
    IN  IF i.neg /\ ~signed THEN Raise("OverflowError", NegativeMsg)
        ELSE IF n > length THEN Raise("OverflowError", OverflowMsg)
        ELSE IF ~signed THEN Ok(Pad(i.mag, length))
        ELSE IF ~i.neg
             THEN IF n = length /\ i.mag[length] >= 128
                  THEN Raise("OverflowError", OverflowMsg)
                  ELSE Ok(Pad(i.mag, length))
             ELSE IF n = length /\ (i.mag[length] > 128
                                    \/ (i.mag[length] = 128 /\ ~lowZero))
                  THEN Raise("OverflowError", OverflowMsg)
                  ELSE Ok(TwosComplement(Pad(i.mag, length)))

\* b"<tag>" + size + payload, each part a call that may raise.
Tagged(tag, parts) == JoinResults(<<Ok(<<tag>>)>> \o parts)

\* ------------------------------------------------------- UTF-8, hex
\* str.encode("utf-8") of one code point.
Utf8Char(c) ==
    IF c < 128 THEN <<c>>
    ELSE IF c < 2048 THEN <<192 + (c \div 64), 128 + (c % 64)>>
    ELSE IF c < 65536
         THEN <<224 + (c \div 4096), 128 + ((c \div 64) % 64), 128 + (c % 64)>>
         ELSE <<240 + (c \div 262144), 128 + ((c \div 4096) % 64),
                128 + ((c \div 64) % 64), 128 + (c % 64)>>

Utf8Encode(s) == Concat([k \in 1..Len(s) |-> Utf8Char(s[k])])

HexDigit(d) == IF d < 10 THEN 48 + d ELSE 87 + d

\* bytes.hex(): two lower-case hexadecimal digits per byte.
Hex(bs) ==
    [k \in 1..(2 * Len(bs)) |->
        IF k % 2 = 1 THEN HexDigit(bs[(k + 1) \div 2] \div 16)
        ELSE HexDigit(bs[k \div 2] % 16)]

\* ------------------------------------------------------- value encoders
\* _compile_int with the range check left out: the low four bytes of the
\* two's complement, whatever the magnitude.
CompileInt_truncating(i) ==
    LET low == Pad(i.mag, 4)
    IN  Ok(<<105>> \o (IF i.neg THEN TwosComplement(low) ELSE low))

\* _compile_int
CompileInt(i) == Tagged(105, <<ToBytes(i, 4, TRUE)>>)

\* _compile_bytestring
CompileBytestring(s) == Tagged(98, <<ToBytes(PyLen(s), 4, FALSE), Ok(s)>>)

\* _compile_unicode_string
CompileUnicodeString(s) ==
    LET encoded == Utf8Encode(s)
    IN  Tagged(115, <<ToBytes(PyLen(encoded), 4, FALSE), Ok(encoded)>>)

\* _compile_nonetype
CompileNonetype == Ok(<<78>>)

\* _compile_bool: [b"-", b"+"][v]
CompileBool(v) == Ok(IF v THEN <<43>> ELSE <<45>>)

\* _compile_float: b"f" + struct.pack("<d", v).  A float is held as the
\* 8 bytes of its IEEE-754 double, most significant first; "<d" writes
\* them least significant first.
CompileFloat(v) == Ok(<<102>> \o [k \in 1..8 |-> v[9 - k]])

\* isinstance(i, int): bool is a subclass of int.
IsInstanceInt(v) == v.kind \in {"int", "bool"}

\* The int a value that passes isinstance(i, int) is: True is 1, False 0.
AsInt(v) == IF v.kind = "bool" THEN PyInt(IF v.val THEN 1 ELSE 0) ELSE v.val

\* f"Unknown type {type(i)}"
UnknownTypeMsg(typename) ==
    <<85,110,107,110,111,119,110,32,116,121,112,101,32,60,99,108,97,115,115,32,39>>  \* "Unknown type <class '"
        \* "Unknown type <class '"
        \o typename \o <<39,62>>  \* "'>"

RECURSIVE CompileObject(_)
RECURSIVE CompileCodeObject(_)

\* The loop of _compile_tuple / _compile_list: each item in order.
CompileItems(t) == JoinResults([k \in 1..Len(t) |-> CompileObject(t[k])])

\* _compile_tuple
CompileTuple(t) ==
    Tagged(116, <<ToBytes(PyLen(t), 4, FALSE), CompileItems(t)>>)

\* _compile_list
CompileList(t) ==
    Tagged(108, <<ToBytes(PyLen(t), 4, FALSE), CompileItems(t)>>)

\* _compile_dict: a dict is the sequence of its <<key, value>> pairs in
\* iteration order.
CompileDict(t) ==
    Tagged(100, <<ToBytes(PyLen(t), 4, FALSE),
                  JoinResults([k \in 1..(2 * Len(t)) |->
                      CompileObject(t[(k + 1) \div 2][IF k % 2 = 1 THEN 1 ELSE 2])])>>)

\* _compile_code_object: the sixteen fields in the order of the list.
CompileCodeObject(obb) ==
    Tagged(99, <<
        CompileInt(obb.co_argcount),
        CompileInt(obb.co_posonlyargcount),
        CompileInt(obb.co_kwonlyargcount),
        CompileInt(obb.co_nlocals),
        CompileInt(obb.co_stacksize),
        CompileInt(obb.co_flags),
        CompileBytestring(obb.co_code),
        CompileTuple(obb.co_consts),
        CompileTuple(obb.co_names),
        CompileTuple(obb.co_varnames),
        CompileTuple(obb.co_freevars),
        CompileTuple(obb.co_cellvars),
        CompileUnicodeString(obb.co_filename),
        CompileUnicodeString(obb.co_name),
        CompileInt(obb.co_firstlineno),
        CompileBytestring(obb.co_lnotab)>>)

\* _compile_object: the isinstance chain, in the order of the source.
CompileObject(i) ==
    IF IsInstanceInt(i) THEN CompileInt(AsInt(i))
    ELSE IF i.kind = "bytes" THEN CompileBytestring(i.val)
    ELSE IF i.kind = "str" THEN CompileUnicodeString(i.val)
    ELSE IF i.kind = "tuple" THEN CompileTuple(i.val)
    ELSE IF i.kind = "list" THEN CompileList(i.val)
    ELSE IF i.kind = "dict" THEN CompileDict(i.val)
    ELSE IF i.kind = "bool" THEN CompileBool(i.val)
    ELSE IF i.kind = "float" THEN CompileFloat(i.val)
    ELSE IF i.kind = "code" THEN CompileCodeObject(i.val)
    ELSE IF i.kind = "none" THEN CompileNonetype
    ELSE Raise("ValueError", UnknownTypeMsg(i.val))

\* ------------------------------------------------------ str operations
RECURSIVE Split(_, _)
\* str.split(sep) for a non-empty separator.
Split(s, sep) ==
    LET n == Len(sep)
        hits == {k \in 1..(Len(s) - n + 1) : SubSeq(s, k, k + n - 1) = sep}
    IN  IF hits = {} THEN <<s>>
        ELSE LET k == CHOOSE h \in hits : \A g \in hits : h <= g
             IN  <<SubSeq(s, 1, k - 1)>> \o Split(SubSeq(s, k + n, Len(s)), sep)

RECURSIVE Join(_, _)
\* sep.join(parts)
Join(sep, parts) ==
    IF parts = <<>> THEN <<>>
    ELSE IF Len(parts) = 1 THEN parts[1]
    ELSE parts[1] \o sep \o Join(sep, Tail(parts))

\* str.isspace() characters of the ASCII range.
Whitespace == {9, 10, 11, 12, 13, 32}

RECURSIVE SplitWhitespace(_)
\* str.split() without arguments: runs of whitespace separate the tokens,
\* leading and trailing whitespace is dropped.
SplitWhitespace(s) ==
    IF s = <<>> THEN <<>>
    ELSE IF Head(s) \in Whitespace THEN SplitWhitespace(Tail(s))
    ELSE LET stops == {k \in 1..Len(s) : s[k] \in Whitespace}
             e == IF stops = {} THEN Len(s) + 1
                  ELSE CHOOSE h \in stops : \A g \in stops : h <= g
         IN  <<SubSeq(s, 1, e - 1)>> \o SplitWhitespace(SubSeq(s, e, Len(s)))

RECURSIVE Dec(_)
\* f"{n}" of a non-negative int.
Dec(n) == IF n < 10 THEN <<48 + n>> ELSE Dec(n \div 10) \o <<48 + (n % 10)>>

\* ------------------------------------------------- the host environment
\* path_sep: "/" unless sys.getwindowsversion exists.
path_sep == <<47>>

\* CODE_COMMENT
CODE_COMMENT ==
    <<84,104,105,115,32,105,115,32,97,110,32,105,110,116,101,114,110,97,108,32,102,105,108,101,32,103,101,110,101,114,97,116,101,100,32,98,121,32,75,121,116,104,111,110,46,32,68,111,32,110,111,116,32,101,100,105,116,33>>  \* "This is an internal file generated by Kython. Do not edit!"

\* sys.version_info[0:3] of the hosts the session may run on.
Versions == {<<3, 8, 2>>, <<3, 12, 0>>}

\* v.releaselevel
ReleaseLevel == <<102,105,110,97,108>>  \* "final"

\* sys.implementation.name
ImplementationName == <<99,112,121,116,104,111,110>>  \* "cpython"

\* The request paths of the sessions.
P_a == <<97,46,112,121>>  \* "a.py"
P_bad == <<98,97,100,46,112,121>>  \* "bad.py"
P_no == <<110,111,46,112,121>>  \* "no.py"
P_big == <<98,105,103,46,112,121>>  \* "big.py"
P_z == <<122,46,112,121>>  \* "z.py"
P_ro == <<114,111,47,97,46,112,121>>  \* "ro/a.py"
P_full == <<102,117,108,108,47,97,46,112,121>>  \* "full/a.py"
P_bin == <<98,105,110,46,112,121>>  \* "bin.py"
P_mod == <<109,111,100,46,112,121>>  \* "mod.py"

\* The files the host holds: no.py does not exist, bin.py is not UTF-8
\* text, the others hold the named source text.
SourceFiles ==
    (P_a :> "pass") @@ (P_bad :> "syntax") @@ (P_big :> "big")
    @@ (P_z :> "complex") @@ (P_ro :> "pass") @@ (P_full :> "pass")
    @@ (P_bin :> "undecodable") @@ (P_mod :> "mod")

None == [kind |-> "none", val |-> <<>>]

IntV(n) == [kind |-> "int", val |-> PyInt(n)]

StrV(s) == [kind |-> "str", val |-> s]

BoolV(v) == [kind |-> "bool", val |-> v]

\* The code object of the module body "pass" compiled as `filename`.
BaseUnit(filename) ==
    [co_argcount |-> PyInt(0), co_posonlyargcount |-> PyInt(0),
     co_kwonlyargcount |-> PyInt(0), co_nlocals |-> PyInt(0),
     co_stacksize |-> PyInt(1), co_flags |-> PyInt(64),
     co_code |-> <<100, 0, 83, 0>>, co_consts |-> <<None>>,
     co_names |-> <<>>, co_varnames |-> <<>>, co_freevars |-> <<>>,
     co_cellvars |-> <<>>, co_filename |-> filename,
     co_name |-> <<60,109,111,100,117,108,101,62>>, co_firstlineno |-> PyInt(1),  \* "<module>"
     co_lnotab |-> <<>>]

\* The code object of "def f(a): return -1" nested in a module.
InnerUnit(filename) ==
    [BaseUnit(filename) EXCEPT
        !.co_argcount = PyInt(1), !.co_nlocals = PyInt(1),
        !.co_flags = PyInt(67), !.co_consts = <<None, IntV(0 - 1)>>,
        !.co_varnames = <<StrV(<<97>>)>>, !.co_name = <<102>>,
        !.co_firstlineno = PyInt(3), !.co_lnotab = <<0, 1>>]

\* compile(file_data, compiled_filename, "exec"): the code object of the
\* source text, or the SyntaxError of the compiler.
\*   "big":     x = 2147483648
\*   "complex": x = 1j
\*   "mod":     x = True; y = (False, "\u00e9", 2.5); def f(a): return -1
Compile(file_data, compiled_filename) ==
    IF file_data = "syntax"
    THEN [ok |-> FALSE, unit |-> BaseUnit(compiled_filename),
          exc |-> "SyntaxError",
          msg |-> <<105,110,118,97,108,105,100,32,115,121,110,116,97,120,32,40>> \o compiled_filename \o <<44,32,108,105,110,101,32,49,41>>]  \* "invalid syntax (" ", line 1)"
    ELSE [ok |-> TRUE, exc |-> "", msg |-> <<>>,
          unit |->
            IF file_data = "big"
            THEN [BaseUnit(compiled_filename) EXCEPT
                    !.co_consts = <<[kind |-> "int",
                                     val |-> [neg |-> FALSE, mag |-> <<0, 0, 0, 128>>]],
                                    None>>,
                    !.co_names = <<StrV(<<120>>)>>]
            ELSE IF file_data = "complex"
            THEN [BaseUnit(compiled_filename) EXCEPT
                    !.co_consts = <<[kind |-> "other", val |-> <<99,111,109,112,108,101,120>>],  \* "complex"
                                    None>>,
                    !.co_names = <<StrV(<<120>>)>>]
            ELSE IF file_data = "mod"
            THEN [BaseUnit(compiled_filename) EXCEPT
                    !.co_consts = <<BoolV(TRUE),
                                    [kind |-> "tuple",
                                     val |-> <<BoolV(FALSE), StrV(<<233>>),
                                               [kind |-> "float",
                                                val |-> <<64, 4, 0, 0, 0, 0, 0, 0>>]>>],
                                    [kind |-> "code",
                                     val |-> InnerUnit(compiled_filename)],
                                    StrV(<<102>>), None>>,
                    !.co_names = <<StrV(<<120>>), StrV(<<121>>), StrV(<<102>>)>>,
                    !.co_stacksize = PyInt(3)]
            ELSE BaseUnit(compiled_filename)]

\* ------------------------------------------------ compile_kyc, pure part
\* last = path.split(path_sep)[-1]
LastPart(path) == LET parts == Split(path, path_sep) IN parts[Len(parts)]

\* first = path_sep.join(path.split(path_sep)[:-1]), "." when empty
FirstPart(path) ==
    LET parts == Split(path, path_sep)
        first == Join(path_sep, SubSeq(parts, 1, Len(parts) - 1))
    IN  IF first = <<>> THEN <<46>> ELSE first

\* kyc_name = ending.join(last.split(ending)[:-1]) + ".kyc"
KycName(path, ending) ==
    LET parts == Split(LastPart(path), ending)
    IN  Join(ending, SubSeq(parts, 1, Len(parts) - 1)) \o <<46,107,121,99>>  \* ".kyc"

\* first + path_sep + kyc_name, with the default ending ".py"
OutPath(path) == FirstPart(path) \o path_sep \o KycName(path, <<46,112,121>>)  \* ".py"

\* The container of compile_kyc with two header items swapped.
Container_swapped(code_object, minor) ==
    JoinResults(<<
        Ok(<<75,89,67,65>>),  \* "KYCA"
        ToBytes(PyInt(minor), 1, FALSE),
        Ok(<<75>>),
        Ok(<<0, 0, 0, 0, 0, 0, 0, 0>>),
        Ok(<<76>>),
        CompileUnicodeString(CODE_COMMENT),
        Ok(code_object)>>)

\* items of compile_kyc joined: the container around an encoded code object.
Container(code_object, minor) ==
    JoinResults(<<
        Ok(<<75,89,67,65>>),  \* "KYCA"
        ToBytes(PyInt(minor), 1, FALSE),
        Ok(<<75>>),
        Ok(<<76>>),
        Ok(<<0, 0, 0, 0, 0, 0, 0, 0>>),
        CompileUnicodeString(CODE_COMMENT),
        Ok(code_object)>>)

\* Directories of the host in which no file can be created.
ReadOnlyDirs == {<<114,111>>}  \* "ro"

\* Directories of the host on a device with no space left.
FullDirs == {<<102,117,108,108>>}  \* "full"

\* What a file holds when a write to it fails part-way: some prefix.
PartialLengths(bytes) == {0, Len(bytes) \div 2}

\* The output paths of the session's requests.
OutPaths == {OutPath(p) : p \in DOMAIN SourceFiles \cup {P_no}}

Absent == [exists |-> FALSE, data |-> <<>>]

\* What a .kyc file left by an earlier run holds.
StaleFile == [exists |-> TRUE, data |-> <<75,89,67>>]  \* "KYC"

NoExc == [exc |-> "", msg |-> <<>>]

\* The request lines a client may send; readline returns "" at end of file.
EndOfFile == <<>>

RequestLines ==
    {<<99,32>> \o p \o <<10>> : p \in DOMAIN SourceFiles \cup {P_no}}  \* "c "
    \cup {<<99,10>>, <<10>>, <<32,32,10>>, <<120,32,102,111,111,10>>, <<67,32,97,46,112,121,10>>, <<99,99,32,97,46,112,121,10>>}  \* "c\n" "  \n" "x foo\n" "C a.py\n" "cc a.py\n"

\* ------------------------------------------------------------ the state
VARIABLES
    pc,         \* where the process is: the service loop or a step of compile_kyc
    version,    \* sys.version_info[0:3]
    stdout,     \* the lines printed so far
    data,       \* daemonise: the line last read
    path,       \* compile_kyc: its argument
    file_data,  \* compile_kyc: the source text read
    compiled,   \* compile_kyc: the code object of compile()
    b,          \* compile_kyc: the container bytes
    exc,        \* the exception in flight or being handled, NoExc if none
    files,      \* the host's .kyc files
    handles,    \* the file handles open
    opened,     \* history: number of open() calls that returned a handle
    closed,     \* history: number of handles closed
    nlines,     \* history: number of request lines read (end of file is none)
    nreads,     \* history: number of readline calls
    calls,      \* history: number of compile_kyc calls
    before,     \* history: the .kyc files when the last request was read
    failedAt,   \* history: the step of compile_kyc that raised, "" if none
    encIn,      \* encoder check: the value given to _compile_object
    encOut      \* encoder check: what the call returned or raised

vars == <<pc, version, stdout, data, path, file_data, compiled, b, exc, files,
          handles, opened, closed, nlines, nreads, calls, before, failedAt,
          encIn, encOut>>

encVars == <<encIn, encOut>>

svcVars == <<pc, version, stdout, data, path, file_data, compiled, b, exc,
             files, handles, opened, closed, nlines, nreads, calls, before,
             failedAt>>

NoUnit == BaseUnit(<<>>)

NotRun == Raise("", <<>>)

\* The service state before daemonise runs.
SvcInit ==
    /\ pc = "start"
    /\ version \in Versions
    /\ stdout = <<>>
    /\ data = <<>>
    /\ path = <<>>
    /\ file_data = ""
    /\ compiled = NoUnit
    /\ b = <<>>
    /\ exc = NoExc
    /\ \E old \in {Absent, StaleFile} : files = [o \in OutPaths |-> old]
    /\ handles = {}
    /\ opened = 0
    /\ closed = 0
    /\ nlines = 0
    /\ nreads = 0
    /\ calls = 0
    /\ before = files
    /\ failedAt = ""

Init == SvcInit /\ encIn = None /\ encOut = NotRun

\* print(line)
PrintLine(line) == stdout' = Append(stdout, line)

\* daemonise, lines 242-250: the three start-up lines.
Start ==
    /\ pc = "start"
    /\ stdout' = stdout \o <<
            <<105,32,112,121,45,107,121,99,32>> \o Dec(version[1]) \o <<46>> \o Dec(version[2])  \* "i py-kyc "
                \o <<46>> \o Dec(version[3]) \o <<45>> \o ReleaseLevel
                \o <<32>> \o ImplementationName,
            <<35,32,107,121,99,32,119,105,108,108,32,98,101,32,99,111,109,112,105,108,101,100,32,119,105,116,104,32,118,101,114,115,105,111,110,32,49>>,  \* "# kyc will be compiled with version 1"
            <<114>>>>
    /\ pc' = "listen"
    /\ UNCHANGED <<version, data, path, file_data, compiled, b, exc, files,
                   handles, opened, closed, nlines, nreads, calls, before,
                   failedAt, encVars>>

\* data = sys.stdin.readline(): the client sends any request line, or the
\* stream is at end of file.  The history of the last request (exc,
\* failedAt, before) starts afresh.
ReadLine ==
    /\ pc = "listen"
    /\ nreads < MaxRequests
    /\ \E line \in RequestLines \cup {EndOfFile} :
        /\ data' = line
        /\ nlines' = IF line = EndOfFile THEN nlines ELSE nlines + 1
    /\ nreads' = nreads + 1
    /\ pc' = "dispatch"
    /\ exc' = NoExc
    /\ failedAt' = ""
    /\ before' = files
    /\ UNCHANGED <<version, stdout, path, file_data, compiled, b, files,
                   handles, opened, closed, calls, encVars>>

\* The opcode letter and hexadecimal payload of a response line.
Response(tag, payload) == <<tag, 32>> \o payload

\* f"e {str(e).encode('utf-8').hex()}"
ErrorLine(e) == Response(101, Hex(Utf8Encode(e.msg)))

\* The service loop without the unpacking failure: a line with no token
\* is answered like an unknown command.
Dispatch_lenient ==
    /\ pc = "dispatch"
    /\ LET tokens == SplitWhitespace(data)
       IN  IF tokens # <<>> /\ tokens[1] = <<99>> /\ Len(tokens) >= 2
           THEN /\ path' = tokens[2]
                /\ calls' = calls + 1
                /\ pc' = "open_source"
                /\ UNCHANGED <<stdout, exc>>
           ELSE IF tokens # <<>> /\ tokens[1] = <<99>>
           THEN /\ exc' = [exc |-> "IndexError", msg |-> <<108,105,115,116,32,105,110,100,101,120,32,111,117,116,32,111,102,32,114,97,110,103,101>>]  \* "list index out of range"
                /\ pc' = "except"
                /\ UNCHANGED <<stdout, path, calls>>
           ELSE /\ PrintLine(<<117>>)
                /\ pc' = "listen"
                /\ UNCHANGED <<path, calls, exc>>
    /\ UNCHANGED <<version, data, file_data, compiled, b, files, handles,
                   opened, closed, nlines, nreads, before, failedAt, encVars>>

\* The service loop comparing the command token without regard to case.
Dispatch_anycase ==
    /\ pc = "dispatch"
    /\ LET tokens == SplitWhitespace(data)
       IN  IF tokens = <<>>
           THEN /\ exc' = [exc |-> "ValueError", msg |-> <<>>]
                /\ pc' = "crashed"
                /\ UNCHANGED <<stdout, path, calls>>
           ELSE IF tokens[1] \in {<<99>>, <<67>>} /\ Len(tokens) >= 2
           THEN /\ path' = tokens[2]
                /\ calls' = calls + 1
                /\ pc' = "open_source"
                /\ UNCHANGED <<stdout, exc>>
           ELSE IF tokens[1] \in {<<99>>, <<67>>}
           THEN /\ exc' = [exc |-> "IndexError", msg |-> <<108,105,115,116,32,105,110,100,101,120,32,111,117,116,32,111,102,32,114,97,110,103,101>>]  \* "list index out of range"
                /\ pc' = "except"
                /\ UNCHANGED <<stdout, path, calls>>
           ELSE /\ PrintLine(<<117>>)
                /\ pc' = "listen"
                /\ UNCHANGED <<path, calls, exc>>
    /\ UNCHANGED <<version, data, file_data, compiled, b, files, handles,
                   opened, closed, nlines, nreads, before, failedAt, encVars>>

\* daemonise, lines 254-257 and 266-267: unpack the tokens of the line
\* and branch on the command.  The unpacking is outside the try block: a
\* line with no token raises ValueError, which nothing catches.  args[0]
\* is inside it: its IndexError goes to the except clause.
Dispatch ==
    /\ pc = "dispatch"
    /\ LET tokens == SplitWhitespace(data)
       IN  IF tokens = <<>>
           THEN /\ exc' = [exc |-> "ValueError",
                           msg |-> <<110,111,116,32,101,110,111,117,103,104,32,118,97,108,117,101,115,32,116,111,32,117,110,112,97,99,107,32,40,101,120,112,101,99,116,101,100,32,97,116,32,108,101,97,115,116,32,49,44,32,103,111,116,32,48,41>>]  \* "not enough values to unpack (expected at least 1, got 0)"
                /\ pc' = "crashed"
                /\ UNCHANGED <<stdout, path, calls>>
           ELSE IF tokens[1] = <<99>> /\ Len(tokens) >= 2
           THEN /\ path' = tokens[2]
                /\ calls' = calls + 1
                /\ pc' = "open_source"
                /\ UNCHANGED <<stdout, exc>>
           ELSE IF tokens[1] = <<99>>
           THEN /\ exc' = [exc |-> "IndexError", msg |-> <<108,105,115,116,32,105,110,100,101,120,32,111,117,116,32,111,102,32,114,97,110,103,101>>]  \* "list index out of range"
                /\ pc' = "except"
                /\ UNCHANGED <<stdout, path, calls>>
           ELSE /\ PrintLine(<<117>>)
                /\ pc' = "listen"
                /\ UNCHANGED <<path, calls, exc>>
    /\ UNCHANGED <<version, data, file_data, compiled, b, files, handles,
                   opened, closed, nlines, nreads, before, failedAt, encVars>>

\* compile_kyc, line 189: open(path, "r").
OpenSource ==
    /\ pc = "open_source"
    /\ IF path \in DOMAIN SourceFiles
       THEN /\ handles' = handles \cup {"source"}
            /\ opened' = opened + 1
            /\ pc' = "read_source"
            /\ UNCHANGED <<exc, failedAt>>
       ELSE /\ exc' = [exc |-> "FileNotFoundError",
                       msg |-> <<91,69,114,114,110,111,32,50,93,32,78,111,32,115,117,99,104,32,102,105,108,101,32,111,114,32,100,105,114,101,99,116,111,114,121,58,32,39>> \o path \o <<39>>]  \* "[Errno 2] No such file or directory: '"
            /\ failedAt' = "read"
            /\ pc' = "except"
            /\ UNCHANGED <<handles, opened>>
    /\ UNCHANGED <<version, stdout, data, path, file_data, compiled, b, files,
                   closed, nlines, nreads, calls, before, encVars>>

\* compile_kyc, line 190: file_data = f.read().
ReadSource ==
    /\ pc = "read_source"
    /\ IF SourceFiles[path] = "undecodable"
       THEN /\ exc' = [exc |-> "UnicodeDecodeError",
                       msg |-> <<39,117,116,102,45,56,39,32,99,111,100,101,99,32,99,97,110,39,116,32,100,101,99,111,100,101,32,98,121,116,101,32,48,120,102,102,32,105,110,32,112,111,115,105,116,105,111,110,32,48,58,32,105,110,118,97,108,105,100,32,115,116,97,114,116,32,98,121,116,101>>]  \* "'utf-8' codec can't decode byte 0xff in position 0: invalid start byte"
            /\ failedAt' = "read"
            /\ UNCHANGED file_data
       ELSE /\ file_data' = SourceFiles[path]
            /\ UNCHANGED <<exc, failedAt>>
    /\ pc' = "close_source"
    /\ UNCHANGED <<version, stdout, data, path, compiled, b, files, handles,
                   opened, closed, nlines, nreads, calls, before, encVars>>

\* The source handle left open when the read raises.
CloseSource_leaky ==
    /\ pc = "close_source"
    /\ IF exc = NoExc
       THEN /\ handles' = handles \ {"source"}
            /\ closed' = closed + 1
            /\ pc' = "compile"
       ELSE /\ pc' = "except"
            /\ UNCHANGED <<handles, closed>>
    /\ UNCHANGED <<version, stdout, data, path, file_data, compiled, b, exc,
                   files, opened, nlines, nreads, calls, before, failedAt,
                   encVars>>

\* compile_kyc, lines 189-190: the with block is left, by return or by
\* exception, and closes the handle.
CloseSource ==
    /\ pc = "close_source"
    /\ handles' = handles \ {"source"}
    /\ closed' = closed + 1
    /\ pc' = IF exc = NoExc THEN "compile" ELSE "except"
    /\ UNCHANGED <<version, stdout, data, path, file_data, compiled, b, exc,
                   files, opened, nlines, nreads, calls, before, failedAt,
                   encVars>>

\* compile_kyc, lines 192-196: compile() under the bare file name
\* (full_pathname is False in the service loop).
CompileSource ==
    /\ pc = "compile"
    /\ LET r == Compile(file_data, LastPart(path))
       IN  IF r.ok
           THEN /\ compiled' = r.unit
                /\ pc' = "encode"
                /\ UNCHANGED <<exc, failedAt>>
           ELSE /\ exc' = [exc |-> r.exc, msg |-> r.msg]
                /\ failedAt' = "compile"
                /\ pc' = "except"
                /\ UNCHANGED compiled
    /\ UNCHANGED <<version, stdout, data, path, file_data, b, files, handles,
                   opened, closed, nlines, nreads, calls, before, encVars>>

\* The encoding done after the output file was created and its magic
\* written, instead of before the file is opened.
EncodeUnit_streaming ==
    /\ pc = "encode"
    /\ files' = [files EXCEPT ![OutPath(path)] =
                    [exists |-> TRUE, data |-> <<75,89,67,65>>]]  \* "KYCA"
    /\ LET code_object == CompileCodeObject(compiled)
       IN  IF code_object.ok
           THEN /\ b' = Container(code_object.bytes, version[2]).bytes
                /\ pc' = "open_output"
                /\ UNCHANGED <<exc, failedAt>>
           ELSE /\ exc' = [exc |-> code_object.exc, msg |-> code_object.msg]
                /\ failedAt' = "encode"
                /\ pc' = "except"
                /\ UNCHANGED b
    /\ UNCHANGED <<version, stdout, data, path, file_data, compiled, handles,
                   opened, closed, nlines, nreads, calls, before, encVars>>

\* compile_kyc, lines 197 and 210-220: encode the code object, then join
\* the header items, the comment and the code object into b.
EncodeUnit ==
    /\ pc = "encode"
    /\ LET code_object == CompileCodeObject(compiled)
       IN  IF code_object.ok
           THEN /\ b' = Container(code_object.bytes, version[2]).bytes
                /\ pc' = "open_output"
                /\ UNCHANGED <<exc, failedAt>>
           ELSE /\ exc' = [exc |-> code_object.exc, msg |-> code_object.msg]
                /\ failedAt' = "encode"
                /\ pc' = "except"
                /\ UNCHANGED b
    /\ UNCHANGED <<version, stdout, data, path, file_data, compiled, files,
                   handles, opened, closed, nlines, nreads, calls, before,
                   encVars>>

\* compile_kyc, line 222: open(first + path_sep + kyc_name, "wb") creates
\* the file or truncates it.
OpenOutput ==
    /\ pc = "open_output"
    /\ IF FirstPart(path) \in ReadOnlyDirs
       THEN /\ exc' = [exc |-> "PermissionError",
                       msg |-> <<91,69,114,114,110,111,32,49,51,93,32,80,101,114,109,105,115,115,105,111,110,32,100,101,110,105,101,100,58,32,39>> \o OutPath(path) \o <<39>>]  \* "[Errno 13] Permission denied: '"
            /\ failedAt' = "open_output"
            /\ pc' = "except"
            /\ UNCHANGED <<files, handles, opened>>
       ELSE /\ files' = [files EXCEPT ![OutPath(path)] = [exists |-> TRUE, data |-> <<>>]]
            /\ handles' = handles \cup {"output"}
            /\ opened' = opened + 1
            /\ pc' = "write_output"
            /\ UNCHANGED <<exc, failedAt>>
    /\ UNCHANGED <<version, stdout, data, path, file_data, compiled, b,
                   closed, nlines, nreads, calls, before, encVars>>

\* compile_kyc, line 223: f.write(b).  On a full device the write raises
\* OSError and the file keeps some prefix of b.
WriteOutput ==
    /\ pc = "write_output"
    /\ IF FirstPart(path) \in FullDirs
       THEN /\ \E n \in PartialLengths(b) :
                files' = [files EXCEPT ![OutPath(path)].data = SubSeq(b, 1, n)]
            /\ exc' = [exc |-> "OSError", msg |-> <<91,69,114,114,110,111,32,50,56,93,32,78,111,32,115,112,97,99,101,32,108,101,102,116,32,111,110,32,100,101,118,105,99,101>>]  \* "[Errno 28] No space left on device"
            /\ failedAt' = "write_output"
       ELSE /\ files' = [files EXCEPT ![OutPath(path)].data = b]
            /\ UNCHANGED <<exc, failedAt>>
    /\ pc' = "close_output"
    /\ UNCHANGED <<version, stdout, data, path, file_data, compiled, b,
                   handles, opened, closed, nlines, nreads, calls, before,
                   encVars>>

\* compile_kyc, lines 222-225: the with block is left, by return or by
\* exception, and closes the handle.
CloseOutput ==
    /\ pc = "close_output"
    /\ handles' = handles \ {"output"}
    /\ closed' = closed + 1
    /\ pc' = IF exc = NoExc THEN "respond" ELSE "except"
    /\ UNCHANGED <<version, stdout, data, path, file_data, compiled, b, exc,
                   files, opened, nlines, nreads, calls, before, failedAt,
                   encVars>>

\* The service loop with the `except SyntaxError` clause alone.
HandleException_syntaxonly ==
    /\ pc = "except"
    /\ IF exc.exc = "SyntaxError"
       THEN PrintLine(ErrorLine(exc)) /\ pc' = "listen"
       ELSE UNCHANGED stdout /\ pc' = "crashed"
    /\ UNCHANGED <<version, data, path, file_data, compiled, b, exc, files,
                   handles, opened, closed, nlines, nreads, calls, before,
                   failedAt, encVars>>

\* daemonise, lines 258-262: both except clauses print the same line.
\* exc is kept, as history, until the next line is read.
HandleException ==
    /\ pc = "except"
    /\ PrintLine(ErrorLine(exc))
    /\ pc' = "listen"
    /\ UNCHANGED <<version, data, path, file_data, compiled, b, exc, files,
                   handles, opened, closed, nlines, nreads, calls, before,
                   failedAt, encVars>>

\* daemonise, lines 263-264: print(f"C {compiled.hex()}")
RespondCompiled ==
    /\ pc = "respond"
    /\ PrintLine(Response(67, Hex(b)))
    /\ pc' = "listen"
    /\ UNCHANGED <<version, data, path, file_data, compiled, b, exc, files,
                   handles, opened, closed, nlines, nreads, calls, before,
                   failedAt, encVars>>

Next ==
    \/ Start
    \/ ReadLine
    \/ Dispatch
    \/ OpenSource
    \/ ReadSource
    \/ CloseSource
    \/ CompileSource
    \/ EncodeUnit
    \/ OpenOutput
    \/ WriteOutput
    \/ CloseOutput
    \/ HandleException
    \/ RespondCompiled

Spec == Init /\ [][Next]_vars

\* -------------------------------------- the encoder, applied to one value
\* Digits the ints given to the encoder are made of.
DigitSet == {0, 1, 127, 128, 255}

\* Magnitudes of at most MaxDigits digits, the top digit not zero.
Magnitudes ==
    {m \in UNION {[1..n -> DigitSet] : n \in 0..MaxDigits} :
        m = <<>> \/ m[Len(m)] # 0}

\* Values of the other kinds given to the encoder.
Samples == <<
    BoolV(TRUE),
    BoolV(FALSE),
    None,
    [kind |-> "tuple", val |-> <<BoolV(TRUE)>>],
    [kind |-> "list", val |-> <<BoolV(FALSE), BoolV(TRUE)>>],
    [kind |-> "dict", val |-> << <<BoolV(TRUE), BoolV(FALSE)>> >>],
    [kind |-> "tuple", val |-> <<[kind |-> "list", val |-> <<BoolV(FALSE)>>]>>],
    [kind |-> "tuple", val |-> <<IntV(1), BoolV(TRUE), None>>],
    [kind |-> "dict", val |-> << <<StrV(<<107>>), IntV(0 - 2)>>,
                                 <<StrV(<<97>>), BoolV(TRUE)>> >>],
    StrV(<<97, 233, 8364, 128512>>),
    [kind |-> "bytes", val |-> <<0, 255, 10>>],
    [kind |-> "float", val |-> <<191, 240, 0, 0, 0, 0, 0, 1>>],
    [kind |-> "code", val |-> [BaseUnit(<<109>>) EXCEPT !.co_consts = <<BoolV(TRUE)>>]],
    [kind |-> "other", val |-> <<101,108,108,105,112,115,105,115>>],  \* "ellipsis"
    [kind |-> "list", val |-> <<None, [kind |-> "other", val |-> <<102,114,111,122,101,110,115,101,116>>]>>]  \* "frozenset"
    >>

\* The service is not running; one value is given to _compile_object.
EncInit ==
    /\ pc = "encoder"
    /\ version = <<3, 8, 2>>
    /\ stdout = <<>>
    /\ data = <<>>
    /\ path = <<>>
    /\ file_data = ""
    /\ compiled = NoUnit
    /\ b = <<>>
    /\ exc = NoExc
    /\ files = [o \in OutPaths |-> Absent]
    /\ handles = {}
    /\ opened = 0
    /\ closed = 0
    /\ nlines = 0
    /\ nreads = 0
    /\ calls = 0
    /\ before = files
    /\ failedAt = ""
    /\ encOut = NotRun
    /\ \/ \E neg \in BOOLEAN, mag \in Magnitudes :
            /\ ~(neg /\ mag = <<>>)
            /\ encIn = [kind |-> "int", val |-> [neg |-> neg, mag |-> mag]]
       \/ \E k \in 1..Len(Samples) : encIn = Samples[k]

\* encOut = _compile_object(encIn)
ApplyEncoder ==
    /\ pc = "encoder"
    /\ encOut = NotRun
    /\ encOut' = CompileObject(encIn)
    /\ UNCHANGED <<svcVars, encIn>>

EncNext == ApplyEncoder

SpecEnc == EncInit /\ [][EncNext]_vars

\* ===================================================== the properties
\* ---------------------------------------- reading the format back
\* The unsigned number in the four little-endian bytes at p.
U32(bs, p) == bs[p] + bs[p + 1] * 256 + bs[p + 2] * 65536 + bs[p + 3] * 16777216

\* The signed number four little-endian two's-complement bytes hold.
DecodeSigned32(bs) ==
    bs[1] + bs[2] * 256 + bs[3] * 65536
    + (IF bs[4] >= 128 THEN bs[4] - 256 ELSE bs[4]) * 16777216

\* The number an int of at most four digits is.
IntValue(i) ==
    LET d == Pad(i.mag, 4)
        sg == IF i.neg THEN 0 - 1 ELSE 1
    IN  sg * d[1] + sg * d[2] * 256 + sg * d[3] * 65536 + (sg * d[4]) * 16777216

\* n is in [-2^31, 2^31 - 1].
InRange32(i) ==
    \/ Len(i.mag) <= 3
    \/ Len(i.mag) = 4 /\ i.mag[4] <= 127
    \/ i.neg /\ i.mag = <<0, 0, 0, 128>>

RECURSIVE EndOf(_, _)
RECURSIVE EndOfItems(_, _, _)

\* The position after n tagged values in a row starting at p.
EndOfItems(bs, p, n) ==
    IF n = 0 THEN p ELSE EndOfItems(bs, EndOf(bs, p), n - 1)

\* The position after the tagged value starting at p; Len(bs) + 2 when no
\* value of the format starts there.
EndOf(bs, p) ==
    LET bad == Len(bs) + 2
        tag == bs[p]
    IN  IF p > Len(bs) THEN bad
        ELSE IF tag \in {78, 43, 45} THEN p + 1
        ELSE IF tag = 102 THEN IF p + 8 <= Len(bs) THEN p + 9 ELSE bad
        ELSE IF tag = 99 THEN EndOfItems(bs, p + 1, 16)
        ELSE IF p + 4 > Len(bs) THEN bad
        ELSE IF tag = 105 THEN p + 5
        ELSE IF tag \in {98, 115}
             THEN IF p + 4 + U32(bs, p + 1) <= Len(bs)
                  THEN p + 5 + U32(bs, p + 1) ELSE bad
        ELSE IF tag \in {116, 108} THEN EndOfItems(bs, p + 5, U32(bs, p + 1))
        ELSE IF tag = 100 THEN EndOfItems(bs, p + 5, 2 * U32(bs, p + 1))
        ELSE bad

\* Where the k-th field of the code-unit starting (with its tag) at p starts.
FieldStart(bs, p, k) == EndOfItems(bs, p + 1, k - 1)

\* The tags of the sixteen fields, in the order of the format.
FieldTags == <<105, 105, 105, 105, 105, 105, 98, 116, 116, 116, 116, 116, 115, 115, 105, 98>>

\* The payload of the length-prefixed value at p.
Payload(bs, p) == SubSeq(bs, p + 5, p + 4 + U32(bs, p + 1))

\* c is a complete container: header, hash placeholder, comment, and one
\* code-unit of sixteen fields that ends where c ends.
ContainerShape(c) ==
    /\ Len(c) >= 80
    /\ SubSeq(c, 1, 4) = <<75, 89, 67, 65>>
    /\ c[6] = 75
    /\ c[7] = 76
    /\ \A k \in 8..15 : c[k] = 0
    /\ c[16] = 115
    /\ U32(c, 17) = 58
    /\ Payload(c, 16) = CODE_COMMENT
    /\ c[79] = 99
    /\ \A k \in 1..16 :
        /\ FieldStart(c, 79, k) <= Len(c)
        /\ c[FieldStart(c, 79, k)] = FieldTags[k]
    /\ EndOf(c, 79) = Len(c) + 1

\* The fields of the code-unit in c hold the values of unit.
FieldsOf(c, unit) ==
    LET at(k) == FieldStart(c, 79, k)
        int(k) == DecodeSigned32(SubSeq(c, at(k) + 1, at(k) + 4))
    IN  /\ int(1) = IntValue(unit.co_argcount)
        /\ int(2) = IntValue(unit.co_posonlyargcount)
        /\ int(3) = IntValue(unit.co_kwonlyargcount)
        /\ int(4) = IntValue(unit.co_nlocals)
        /\ int(5) = IntValue(unit.co_stacksize)
        /\ int(6) = IntValue(unit.co_flags)
        /\ Payload(c, at(7)) = unit.co_code
        /\ U32(c, at(8) + 1) = Len(unit.co_consts)
        /\ U32(c, at(9) + 1) = Len(unit.co_names)
        /\ U32(c, at(10) + 1) = Len(unit.co_varnames)
        /\ U32(c, at(11) + 1) = Len(unit.co_freevars)
        /\ U32(c, at(12) + 1) = Len(unit.co_cellvars)
        /\ Payload(c, at(13)) = unit.co_filename
        /\ Payload(c, at(14)) = unit.co_name
        /\ int(15) = IntValue(unit.co_firstlineno)
        /\ Payload(c, at(16)) = unit.co_lnotab

UnHexDigit(c) ==
    IF c \in 48..57 THEN c - 48 ELSE IF c \in 97..102 THEN c - 87 ELSE 0 - 256

\* The bytes a string of lower-case hexadecimal digits stands for.
UnHex(h) == [k \in 1..(Len(h) \div 2) |-> 16 * UnHexDigit(h[2 * k - 1]) + UnHexDigit(h[2 * k])]

LowerHex(h) == Len(h) % 2 = 0 /\ \A k \in 1..Len(h) : h[k] \in (48..57) \cup (97..102)

LastLine == stdout[Len(stdout)]

Tokens == SplitWhitespace(data)

\* The line read is a compile request with a path.
CompileRequest == Len(Tokens) >= 2 /\ Tokens[1] = <<99>>

\* The host makes the compile of this path fail.
MustFail(p) ==
    \/ p \notin DOMAIN SourceFiles
    \/ SourceFiles[p] \in {"syntax", "big", "complex", "undecodable"}
    \/ FirstPart(p) \in ReadOnlyDirs \cup FullDirs

\* ------------------------------------------------------------ claims
\* C1: in service mode a request `c <path>` whose compile fails (source
\* unreadable, syntax error, unsupported constant, out-of-range int,
\* output unwritable) never ends the loop and is answered, once the loop
\* is listening again, by exactly one line `e <lower-case hex of the
\* UTF-8 error message>`; a compile fails exactly when the host makes it.
C1_FailureReported ==
    (nreads > 0 /\ CompileRequest /\ (MustFail(Tokens[2]) \/ failedAt # ""))
    => /\ pc # "crashed"
       /\ pc = "listen" =>
            /\ failedAt # ""
            /\ MustFail(Tokens[2])
            /\ Len(stdout) = 3 + nlines
            /\ SubSeq(LastLine, 1, 2) = <<101, 32>>
            /\ LowerHex(SubSeq(LastLine, 3, Len(LastLine)))
            /\ UnHex(SubSeq(LastLine, 3, Len(LastLine))) = exc.msg
            /\ exc.msg # <<>>
       /\ pc # "listen" => Len(stdout) = 3 + nlines - 1

\* C1 witness: a failed compile was reported and the loop listens again.
C1_Witness ==
    /\ pc = "listen"
    /\ CompileRequest
    /\ failedAt = "encode"
    /\ exc.exc = "OverflowError"
    /\ LastLine[1] = 101

\* C2: strict alternation: whenever the loop is about to read, or has
\* stopped, every request line read so far has exactly one response line
\* after the three start-up lines.
C2_StrictAlternation ==
    /\ pc \in {"listen", "crashed"} => Len(stdout) = 3 + nlines
    /\ (pc \notin {"start", "listen", "crashed"} /\ data # EndOfFile)
        => Len(stdout) = 3 + nlines - 1

\* The line read is malformed: blank, whitespace only, or `c` alone.
Malformed == data # EndOfFile /\ (Tokens = <<>> \/ Tokens = << <<99>> >>)

\* C3: a malformed request line is answered with the line `u` and the
\* loop is listening again afterwards, never crashed.
C3_MalformedAnsweredUnknown ==
    (nreads > 0 /\ Malformed /\ pc \in {"listen", "crashed"})
    => pc = "listen" /\ LastLine = <<117>>

\* Layout of a value made of booleans and containers only, by the format
\* table: one byte per boolean.
RECURSIVE BooleanLayout(_)
BooleanLayout(v) ==
    LET n == Len(v.val)
        size == <<n % 256, (n \div 256) % 256, 0, 0>>
    IN  IF v.kind = "bool" THEN (IF v.val THEN <<43>> ELSE <<45>>)
        ELSE IF v.kind = "tuple"
             THEN <<116>> \o size \o Concat([k \in 1..n |-> BooleanLayout(v.val[k])])
        ELSE IF v.kind = "list"
             THEN <<108>> \o size \o Concat([k \in 1..n |-> BooleanLayout(v.val[k])])
        ELSE <<100>> \o size
             \o Concat([k \in 1..n |->
                    BooleanLayout(v.val[k][1]) \o BooleanLayout(v.val[k][2])])

RECURSIVE OnlyBooleans(_)
OnlyBooleans(v) ==
    \/ v.kind = "bool"
    \/ /\ v.kind \in {"tuple", "list"}
       /\ \A k \in 1..Len(v.val) : OnlyBooleans(v.val[k])
    \/ /\ v.kind = "dict"
       /\ \A k \in 1..Len(v.val) : OnlyBooleans(v.val[k][1]) /\ OnlyBooleans(v.val[k][2])

\* C4: a boolean, alone or nested in a tuple, list or mapping, is encoded
\* as the one byte `-` or `+`, never as the 5-byte int record.
C4_BooleanOneByte ==
    (encOut # NotRun /\ OnlyBooleans(encIn))
    => encOut.ok /\ encOut.bytes = BooleanLayout(encIn)

\* C5: an int in [-2^31, 2^31 - 1] is encoded as 5 bytes, `i` and the
\* number as little-endian two's-complement 32 bits; an int outside the
\* range raises OverflowError and yields no bytes.
C5_IntegerFailsClosed ==
    (encOut # NotRun /\ encIn.kind = "int")
    => IF InRange32(encIn.val)
       THEN /\ encOut.ok
            /\ Len(encOut.bytes) = 5
            /\ encOut.bytes[1] = 105
            /\ DecodeSigned32(SubSeq(encOut.bytes, 2, 5)) = IntValue(encIn.val)
       ELSE /\ ~encOut.ok
            /\ encOut.exc = "OverflowError"
            /\ encOut.bytes = <<>>

\* C5 witness: an int just outside the range was given and refused.
C5_Witness ==
    /\ encOut # NotRun
    /\ encIn.kind = "int"
    /\ encIn.val = [neg |-> TRUE, mag |-> <<1, 0, 0, 128>>]
    /\ ~encOut.ok

\* C6: the container a successful compile returns is, in order, `KYCA`,
\* the minor version byte, `K`, `L`, 8 zero bytes, the comment as a text
\* value, and one code-unit: `c` and its sixteen fields in the fixed
\* order, holding the code object's values, with nothing after them.
C6_ContainerLayout ==
    pc = "respond"
    => /\ ContainerShape(b)
       /\ b[5] = version[2]
       /\ FieldsOf(b, compiled)
       /\ compiled.co_filename = LastPart(path)

\* C6 witness: a compile of a module with nested values has succeeded.
C6_Witness ==
    /\ pc = "respond"
    /\ path = P_mod
    /\ Len(compiled.co_consts) = 5
    /\ version[2] = 12

\* The line read has a command token other than `c`.
OtherCommand == Tokens # <<>> /\ Tokens[1] # <<99>>

\* C7: a line whose command token is not `c` is answered in one step by
\* the line `u`, without a call of compile_kyc, and the loop listens again.
C7_UnknownCommand ==
    [][(pc = "dispatch" /\ OtherCommand)
        => (pc' = "listen" /\ stdout' = Append(stdout, <<117>>) /\ calls' = calls)]_vars

\* C7 witness: `C a.py` was answered `u`.
C7_Witness ==
    /\ pc = "listen"
    /\ nreads > 0
    /\ OtherCommand
    /\ Tokens[1] = <<67>>
    /\ LastLine = <<117>>

\* C8: after a compile that failed while reading, compiling or encoding,
\* the output path is untouched or holds a complete container.
C8_NoPartialOutput ==
    failedAt \in {"read", "compile", "encode"}
    => LET f == files[OutPath(path)]
       IN  f = before[OutPath(path)] \/ (f.exists /\ ContainerShape(f.data))

\* C8 witness: encoding failed with an earlier output file in place.
C8_Witness ==
    /\ pc = "listen"
    /\ failedAt = "encode"
    /\ files[OutPath(path)] = StaleFile

C10_HandlesScoped ==
    /\ Cardinality(handles) <= 1
    /\ opened - closed = Cardinality(handles)
    /\ pc \in {"listen", "dispatch", "except", "respond", "crashed"} => handles = {}
    /\ pc \in {"read_source", "close_source"} => handles = {"source"}
    /\ pc \in {"write_output", "close_output"} => handles = {"output"}

\* C10 witness: listening after a successful and a failed compile.
C10_Witness ==
    /\ pc = "listen"
    /\ nlines = 2
    /\ opened = 3
    /\ closed = 3
    /\ failedAt = "read"

====
